---- MODULE Spec2Model ----
(***************************************************************************)
(* Model of python/lance/util.py: the metric-type normaliser, the          *)
(* KMeans constructor, KMeans._to_fixed_size_list and                      *)
(* validate_vector_index.                                                  *)
(*                                                                         *)
(* Three specifications share the variables:                               *)
(*   Spec          one call of validate_vector_index                       *)
(*   SpecKMeans    one call of KMeans.__init__                             *)
(*   SpecNormalize calls of KMeans._to_fixed_size_list on the              *)
(*                 representations of one logical table                    *)
(* Each leaves the variables of the other two at their idle values.        *)
(***************************************************************************)
EXTENDS Integers, Sequences, FiniteSets, TLC

VARIABLES
    pc,             \* validate_vector_index: position in the function body
    vecs,           \* validate_vector_index: the materialised working set
    i,              \* validate_vector_index: index of the row the for loop is at
    passes,         \* validate_vector_index: local `passes`
    total,          \* validate_vector_index: local `total`
    pass_threshold, \* validate_vector_index: argument, a rational <<num, den>>
    refine_factor,  \* validate_vector_index: argument
    queries,        \* nearest-neighbour queries the dataset has received, in order
    replies,        \* what the dataset answered to each query, in order
    outcome,        \* validate_vector_index: how the call ended
    kpc,            \* KMeans.__init__: position in the constructor
    metric_input,   \* KMeans.__init__: argument metric_type, a sequence of characters
    k,              \* KMeans.__init__: argument k
    self_metric,    \* KMeans.__init__: self._metric_type
    native,         \* _KMeans objects created so far
    koutcome,       \* KMeans.__init__: how the call ended
    tbl,            \* the logical table handed to _to_fixed_size_list
    res             \* per representation, the input given and what the call produced

vars == <<pc, vecs, i, passes, total, pass_threshold, refine_factor, queries,
          replies, outcome, kpc, metric_input, k, self_metric, native, koutcome,
          tbl, res>>

validateVars == <<pc, vecs, i, passes, total, pass_threshold, refine_factor,
                  queries, replies, outcome>>
kmeansVars == <<kpc, metric_input, k, self_metric, native, koutcome>>
normalizeVars == <<tbl, res>>

\* ---------------------------------------------------------------- bounds
MaxRows == 3
MaxK == 2
MaxN == 2
MaxD == 2

\* ---------------------------------------------------------------- results
\* How a call ended: still running, returned a value, or raised an exception
\* of class exc with message prefix msg and the values formatted into it.
Running == [status |-> "running", exc |-> "", msg |-> "", args |-> <<>>, value |-> <<>>]
Returned(v) == [status |-> "returned", exc |-> "", msg |-> "", args |-> <<>>, value |-> v]
Raised(e, m, a) == [status |-> "raised", exc |-> e, msg |-> m, args |-> a, value |-> <<>>]

None == <<"None">>

\* ------------------------------------------------- validate_vector_index
\* Vector elements are float32 values, written as their text; only NaN-ness
\* of an element is ever inspected by the code.
NaN == "nan"
VecSet == { <<"1.0", "2.0">>, <<"2.0", "1.0">>, <<NaN, "2.0">>, <<"1.0", NaN>> }
RowSets == UNION { [1..n -> VecSet] : n \in 0..MaxRows }

\* Distances are counted in units of 1e-7, so that 1e-6 is EPS.
EPS == 10
Distances == {0, 10, -20}
QueryErrors == {"OSError", "IndexError"}
\* pass_threshold as a rational <<numerator, denominator>>, denominator > 0.
PassThresholds == { <<-1, 2>>, <<0, 1>>, <<1, 3>>, <<1, 2>>, <<2, 3>>, <<1, 1>>, <<3, 2>> }
RefineFactors == {1, 5}

Abs(x) == IF x < 0 THEN -x ELSE x

\* np.isnan(vec).any()
HasNaN(vec) == \E j \in 1..Len(vec) : vec[j] = NaN

\* abs(distance) < 1e-6
IsPass(distance) == Abs(distance) < EPS

\* variant of RateBelow: the comparison written <= instead of <
RateBelowOrEqual(p, t, th) == p * th[2] <= th[1] * t

\* passes / total < pass_threshold, for total > 0, compared exactly
\* (th[2] > 0, t > 0, so the inequality is cross-multiplied).
RateBelow(p, t, th) == p * th[2] < th[1] * t

\* variant of SanityCheckError: the message reports len(vecs) for the total
SanityCheckError_RowCount(p, t) ==
    Raised("ValueError", "Vector index failed sanity check", <<p, Len(vecs)>>)

\* ValueError(f"Vector index failed sanity check, only {passes}/{total} passed")
SanityCheckError(p, t) == Raised("ValueError", "Vector index failed sanity check", <<p, t>>)

\* data = dataset.to_table(); vecs = data[column].to_numpy(); passes = 0;
\* total = len(vecs)
MaterializeAll ==
    /\ pc = "start"
    /\ \E v \in RowSets :
         /\ vecs' = v
         /\ total' = Len(v)
    /\ passes' = 0
    /\ i' = 1
    /\ pc' = "loop"
    /\ UNCHANGED <<pass_threshold, refine_factor, queries, replies, outcome>>
    /\ UNCHANGED <<kmeansVars, normalizeVars>>

\* data = dataset.sample(sample_size); vecs = ...; passes = 0; total = len(vecs)
MaterializeSample(sample_size) ==
    /\ pc = "start"
    /\ \E v \in RowSets :
         /\ Len(v) = sample_size
         /\ vecs' = v
         /\ total' = Len(v)
    /\ passes' = 0
    /\ i' = 1
    /\ pc' = "loop"
    /\ UNCHANGED <<pass_threshold, refine_factor, queries, replies, outcome>>
    /\ UNCHANGED <<kmeansVars, normalizeVars>>

\* variant of SkipNaN: the row is skipped without total -= 1
SkipNaN_KeepTotal ==
    /\ pc = "loop"
    /\ i <= Len(vecs)
    /\ \E j \in 1..Len(vecs[i]) : vecs[i][j] = NaN
    /\ i' = i + 1
    /\ UNCHANGED <<pc, vecs, passes, total, pass_threshold, refine_factor, queries,
                   replies, outcome>>
    /\ UNCHANGED <<kmeansVars, normalizeVars>>

\* if np.isnan(vec).any(): total -= 1; continue
SkipNaN ==
    /\ pc = "loop"
    /\ i <= Len(vecs)
    /\ HasNaN(vecs[i])
    /\ total' = total - 1
    /\ i' = i + 1
    /\ UNCHANGED <<pc, vecs, passes, pass_threshold, refine_factor, queries, replies, outcome>>
    /\ UNCHANGED <<kmeansVars, normalizeVars>>

\* variant of NearestQuery: refine_factor passed as nprobes too
NearestQuery_ProbesRefine(vec) ==
    [q |-> vec, k |-> 1, nprobes |-> refine_factor, refine_factor |-> refine_factor]

\* the nearest= argument of dataset.to_table
NearestQuery(vec) ==
    [q |-> vec, k |-> 1, nprobes |-> 1, refine_factor |-> refine_factor]

\* dataset.to_table(nearest={...}) is called for a row without NaN
IssueQuery ==
    /\ pc = "loop"
    /\ i <= Len(vecs)
    /\ ~HasNaN(vecs[i])
    /\ queries' = Append(queries, NearestQuery(vecs[i]))
    /\ pc' = "querying"
    /\ UNCHANGED <<vecs, i, passes, total, pass_threshold, refine_factor, replies, outcome>>
    /\ UNCHANGED <<kmeansVars, normalizeVars>>

\* the dataset's answer to one query: a top-1 distance, or an error raised
DistanceReply(d) == [kind |-> "distance", distance |-> d, error |-> ""]
ErrorReply(e) == [kind |-> "error", distance |-> 0, error |-> e]

\* distance = (...)["_distance"].to_pylist()[0];
\* passes += 1 if abs(distance) < 1e-6 else 0
QueryReturn(distance) ==
    /\ pc = "querying"
    /\ replies' = Append(replies, DistanceReply(distance))
    /\ passes' = passes + (IF IsPass(distance) THEN 1 ELSE 0)
    /\ i' = i + 1
    /\ pc' = "loop"
    /\ UNCHANGED <<vecs, total, pass_threshold, refine_factor, queries, outcome>>
    /\ UNCHANGED <<kmeansVars, normalizeVars>>

\* variant of QueryFail: the error is caught and the loop goes on
QueryFail_Swallowed(e) ==
    /\ pc = "querying"
    /\ replies' = Append(replies, [kind |-> "error", distance |-> 0, error |-> e])
    /\ i' = i + 1
    /\ pc' = "loop"
    /\ UNCHANGED <<vecs, passes, total, pass_threshold, refine_factor, queries, outcome>>
    /\ UNCHANGED <<kmeansVars, normalizeVars>>

\* the query (or the [0] on an empty result) raises: nothing in the function
\* catches it, so it leaves validate_vector_index
QueryFail(e) ==
    /\ pc = "querying"
    /\ replies' = Append(replies, ErrorReply(e))
    /\ outcome' = Raised(e, "", <<>>)
    /\ pc' = "done"
    /\ UNCHANGED <<vecs, i, passes, total, pass_threshold, refine_factor, queries>>
    /\ UNCHANGED <<kmeansVars, normalizeVars>>

\* if passes / total < pass_threshold: raise ValueError(...)
\* (falling off the end returns None; total = 0 makes the division raise)
ThresholdCheck ==
    /\ pc = "loop"
    /\ i > Len(vecs)
    /\ outcome' = IF total = 0
                    THEN Raised("ZeroDivisionError", "division by zero", <<>>)
                    ELSE IF RateBelow(passes, total, pass_threshold)
                           THEN SanityCheckError(passes, total)
                           ELSE Returned(None)
    /\ pc' = "done"
    /\ UNCHANGED <<vecs, i, passes, total, pass_threshold, refine_factor, queries, replies>>
    /\ UNCHANGED <<kmeansVars, normalizeVars>>

\* ------------------------------------------------ _normalize_metric_type
\* A str is a sequence of one-character strings.
UpperCase == << "A", "B", "C", "D", "E", "F", "G", "H", "I", "J", "K", "L", "M",
                "N", "O", "P", "Q", "R", "S", "T", "U", "V", "W", "X", "Y", "Z" >>
LowerCase == << "a", "b", "c", "d", "e", "f", "g", "h", "i", "j", "k", "l", "m",
                "n", "o", "p", "q", "r", "s", "t", "u", "v", "w", "x", "y", "z" >>

\* str.lower() on one ASCII character
CharLower(c) ==
    IF \E n \in 1..Len(UpperCase) : UpperCase[n] = c
      THEN LowerCase[CHOOSE n \in 1..Len(UpperCase) : UpperCase[n] = c]
      ELSE c

\* variant of StrLower: no case folding
StrLower_CaseSensitive(s) == s

\* metric_type.lower()
StrLower(s) == [n \in 1..Len(s) |-> CharLower(s[n])]

L2 == << "l", "2" >>
DOT == << "d", "o", "t" >>
COSINE == << "c", "o", "s", "i", "n", "e" >>
EUCLIDEAN == << "e", "u", "c", "l", "i", "d", "e", "a", "n" >>

\* def _normalize_metric_type(metric_type)
NormalizeMetricType(metric_type) ==
    LET lowered == StrLower(metric_type)
        normalized == IF lowered = EUCLIDEAN THEN L2 ELSE lowered
    IN  IF normalized \notin {L2, DOT, COSINE}
          THEN Raised("ValueError", "Invalid metric_type", <<metric_type>>)
          ELSE Returned(normalized)

\* ------------------------------------------------------- KMeans.__init__
\* metric_type = _normalize_metric_type(metric_type); self.k = k;
\* self._metric_type = metric_type   (self.k is not read by anything modelled)
KMeansNormalize ==
    /\ kpc = "start"
    /\ LET r == NormalizeMetricType(metric_input)
       IN  IF r.status = "raised"
             THEN /\ koutcome' = r
                  /\ kpc' = "done"
                  /\ UNCHANGED self_metric
             ELSE /\ self_metric' = r.value
                  /\ kpc' = "create"
                  /\ UNCHANGED koutcome
    /\ UNCHANGED <<metric_input, k, native>>
    /\ UNCHANGED <<validateVars, normalizeVars>>

\* self._kmeans = _KMeans(k, metric_type, max_iters=..., centroids_arr=...)
KMeansCreate ==
    /\ kpc = "create"
    /\ native' = Append(native, [k |-> k, metric_type |-> self_metric])
    /\ koutcome' = Returned(None)
    /\ kpc' = "done"
    /\ UNCHANGED <<metric_input, k, self_metric>>
    /\ UNCHANGED <<validateVars, normalizeVars>>

\* the native constructor raises: the error leaves __init__ unchanged
KMeansCreateFail(e) ==
    /\ kpc = "create"
    /\ koutcome' = Raised(e, "", <<>>)
    /\ kpc' = "done"
    /\ UNCHANGED <<metric_input, k, self_metric, native>>
    /\ UNCHANGED <<validateVars, normalizeVars>>

\* --------------------------------------------- KMeans._to_fixed_size_list
DTypes == {"float32", "float64", "int32"}
Elems == {"0.0", "1.0"}
\* Shape of one row: <<D>> for an N x D table, two dimensions for a rank-3 one.
RowShapes == { <<d>> : d \in 1..MaxD } \cup { <<d, 1>> : d \in 1..MaxD }
                 \cup { <<1, d>> : d \in 1..MaxD }

RowSize(shape) == IF Len(shape) = 1 THEN shape[1] ELSE shape[1] * shape[2]

\* The logical tables: dtype, N rows, row shape, cells in row-major order.
Tables ==
    UNION { [dtype : DTypes, n : {n}, rowshape : {sh},
             cells : [1..(n * RowSize(sh)) -> Elems]]
            : <<n, sh>> \in (0..MaxN) \X RowShapes }

\* pa.FixedSizeListArray of the table (a row of rank 2 nests a list type)
AsFixedSizeList(t) ==
    [kind |-> "FixedSizeListArray",
     value_type |-> IF Len(t.rowshape) = 1 THEN t.dtype ELSE "fixed_size_list",
     list_size |-> t.rowshape[1],
     length |-> t.n,
     values |-> t.cells]

\* pa.FixedShapeTensorArray of the table: the shape descriptor over a
\* FixedSizeListArray storage of the flattened rows
AsTensor(t) ==
    [kind |-> "FixedShapeTensorArray",
     shape |-> t.rowshape,
     storage |-> [kind |-> "FixedSizeListArray",
                  value_type |-> t.dtype,
                  list_size |-> RowSize(t.rowshape),
                  length |-> t.n,
                  values |-> t.cells]]

\* np.ndarray of the table, laid out in memory in C or in Fortran order
AsNdarray(t, order) ==
    LET cols == RowSize(t.rowshape)
    IN  [kind |-> "ndarray",
         shape |-> <<t.n>> \o t.rowshape,
         dtype |-> t.dtype,
         order |-> order,
         buf |-> IF order = "C"
                   THEN t.cells
                   ELSE [p \in 1..(t.n * cols) |->
                           t.cells[((p - 1) % t.n) * cols + ((p - 1) \div t.n) + 1]]]

\* a value that is none of the three accepted types
AsOther(t) == [kind |-> "list"]

\* data[r, c] of a 2-D ndarray, through its memory layout
NdAt(data, r, c) ==
    IF data.order = "C"
      THEN data.buf[r * data.shape[2] + c + 1]
      ELSE data.buf[c * data.shape[1] + r + 1]

\* variant of Reshape1D: the memory buffer as it lies, strides ignored
Reshape1D_RawBuffer(data) == data.buf

\* data.reshape((-1,)): the elements in row-major (C) order
Reshape1D(data) ==
    [p \in 1..(data.shape[1] * data.shape[2]) |->
       NdAt(data, (p - 1) \div data.shape[2], (p - 1) % data.shape[2])]

\* pa.FixedSizeListArray.from_arrays(pa.array(inner, type=pa.float32()), list_size)
FromArrays(inner, list_size) ==
    [kind |-> "FixedSizeListArray",
     value_type |-> "float32",
     list_size |-> list_size,
     length |-> Len(inner) \div list_size,
     values |-> inner]

\* the isinstance(data, pa.FixedSizeListArray) branch
FixedSizeListBranch(data) ==
    IF data.value_type # "float32"
      THEN Raised("ValueError", "Array must be float32 type", <<data.value_type>>)
      ELSE Returned(data)

\* variant of NdarrayBranch: dtype checked before the number of dimensions
NdarrayBranch_TypeFirst(data) ==
    IF data.dtype # "float32"
      THEN Raised("ValueError", "Numpy array must be float32 type", <<data.dtype>>)
      ELSE IF Len(data.shape) # 2
             THEN Raised("ValueError", "Numpy array must be a 2-D array", <<Len(data.shape)>>)
             ELSE Returned([kind |-> "FixedSizeListArray", value_type |-> "float32",
                            list_size |-> data.shape[2], length |-> data.shape[1],
                            values |-> data.buf])

\* the isinstance(data, np.ndarray) branch
NdarrayBranch(data) ==
    IF Len(data.shape) # 2
      THEN Raised("ValueError", "Numpy array must be a 2-D array", <<Len(data.shape)>>)
      ELSE IF data.dtype # "float32"
             THEN Raised("ValueError", "Numpy array must be float32 type", <<data.dtype>>)
             ELSE Returned(FromArrays(Reshape1D(data), data.shape[2]))

\* def _to_fixed_size_list(self, data)
ToFixedSizeList(data) ==
    IF data.kind = "FixedSizeListArray"
      THEN FixedSizeListBranch(data)
      ELSE IF data.kind = "FixedShapeTensorArray"
             THEN IF Len(data.shape) # 1
                    THEN Raised("ValueError", "Fixed shape tensor array must be a 1-D array",
                                <<Len(data.shape)>>)
                    ELSE FixedSizeListBranch(data.storage)
             ELSE IF data.kind = "ndarray"
                    THEN NdarrayBranch(data)
                    ELSE Raised("ValueError",
                                "Data must be a FixedSizeListArray, Tensor or numpy array", <<>>)

Forms == {"fsl", "tensor", "ndarrayC", "ndarrayF", "other"}
NotCalled == [called |-> FALSE, data |-> <<>>, result |-> Running]

\* one call self._to_fixed_size_list(data), as fit and predict make it
Call(form, data) ==
    /\ ~res[form].called
    /\ res' = [res EXCEPT ![form] =
                 [called |-> TRUE, data |-> data, result |-> ToFixedSizeList(data)]]
    /\ UNCHANGED tbl
    /\ UNCHANGED <<validateVars, kmeansVars>>

NormalizeFixedSizeList == Call("fsl", AsFixedSizeList(tbl))
NormalizeTensor == Call("tensor", AsTensor(tbl))
NormalizeNdarrayC == Call("ndarrayC", AsNdarray(tbl, "C"))
NormalizeNdarrayF == Call("ndarrayF", AsNdarray(tbl, "F"))
NormalizeOther == Call("other", AsOther(tbl))

\* -------------------------------------------------------- specifications
ValidateIdle ==
    /\ pc = "idle" /\ vecs = <<>> /\ i = 0 /\ passes = 0 /\ total = 0
    /\ pass_threshold = <<1, 1>> /\ refine_factor = 5
    /\ queries = <<>> /\ replies = <<>> /\ outcome = Running
KMeansIdle ==
    /\ kpc = "idle" /\ metric_input = <<>> /\ k = 0 /\ self_metric = <<>>
    /\ native = <<>> /\ koutcome = Running
NoTable == [dtype |-> "float32", n |-> 0, rowshape |-> <<1>>, cells |-> <<>>]
NormalizeIdle ==
    /\ tbl = NoTable
    /\ res = [f \in Forms |-> NotCalled]

\* validate_vector_index(dataset, column, refine_factor, sample_size, pass_threshold)
Init ==
    /\ pc = "start" /\ vecs = <<>> /\ i = 0 /\ passes = 0 /\ total = 0
    /\ pass_threshold \in PassThresholds
    /\ refine_factor \in RefineFactors
    /\ queries = <<>> /\ replies = <<>> /\ outcome = Running
    /\ KMeansIdle
    /\ NormalizeIdle

Next ==
    \/ MaterializeAll
    \/ \E n \in 0..MaxRows : MaterializeSample(n)
    \/ SkipNaN
    \/ IssueQuery
    \/ \E d \in Distances : QueryReturn(d)
    \/ \E e \in QueryErrors : QueryFail(e)
    \/ ThresholdCheck

Spec == Init /\ [][Next]_vars

\* lance.util.KMeans(k, metric_type=...)
CharUpper(c) ==
    IF \E n \in 1..Len(LowerCase) : LowerCase[n] = c
      THEN UpperCase[CHOOSE n \in 1..Len(LowerCase) : LowerCase[n] = c]
      ELSE c

RECURSIVE Casings(_)
\* every way of writing the lower-case word w in mixed case
Casings(w) ==
    IF w = <<>>
      THEN { <<>> }
      ELSE { <<c>> \o rest : c \in {Head(w), CharUpper(Head(w))}, rest \in Casings(Tail(w)) }

MetricInputs ==
    Casings(L2) \cup Casings(DOT) \cup Casings(COSINE) \cup Casings(EUCLIDEAN)
      \cup Casings(<< "l", "1" >>)
      \cup { <<>>,
             << "m", "a", "n", "h", "a", "t", "t", "a", "n" >>,
             << "M", "A", "N", "H", "A", "T", "T", "A", "N" >>,
             << "l", "2", " " >>,
             << "c", "o", "s" >>,
             << "e", "u", "c", "l", "i", "d" >> }
NativeErrors == {"ValueError", "OSError"}

InitKMeans ==
    /\ kpc = "start"
    /\ metric_input \in MetricInputs
    /\ k \in 1..MaxK
    /\ self_metric = <<>> /\ native = <<>> /\ koutcome = Running
    /\ ValidateIdle
    /\ NormalizeIdle

NextKMeans ==
    \/ KMeansNormalize
    \/ KMeansCreate
    \/ \E e \in NativeErrors : KMeansCreateFail(e)

SpecKMeans == InitKMeans /\ [][NextKMeans]_vars

\* KMeans.fit(data) / KMeans.predict(data) up to the native call
InitNormalize ==
    /\ tbl \in Tables
    /\ res = [f \in Forms |-> NotCalled]
    /\ ValidateIdle
    /\ KMeansIdle

NextNormalize ==
    \/ NormalizeFixedSizeList
    \/ NormalizeTensor
    \/ NormalizeNdarrayC
    \/ NormalizeNdarrayF
    \/ NormalizeOther

SpecNormalize == InitNormalize /\ [][NextNormalize]_vars

\* ================================================================ claims
\* The error taxonomy, read off the exception class and message.
IsAccuracyError(o) ==
    o.status = "raised" /\ o.exc = "ValueError" /\ o.msg = "Vector index failed sanity check"
IsInvalidArgument(o) ==
    o.status = "raised" /\ o.exc = "ValueError" /\ o.msg = "Invalid metric_type"
IsTypeMismatch(o) ==
    /\ o.status = "raised" /\ o.exc = "ValueError"
    /\ o.msg \in {"Array must be float32 type", "Numpy array must be float32 type"}
IsShapeError(o) ==
    /\ o.status = "raised" /\ o.exc = "ValueError"
    /\ o.msg \in {"Fixed shape tensor array must be a 1-D array",
                  "Numpy array must be a 2-D array"}

RowHasNaN(row) == NaN \in { row[j] : j \in DOMAIN row }
NoNaNRow(row) == ~RowHasNaN(row)
NonNaNCount == Cardinality({ r \in 1..Len(vecs) : NoNaNRow(vecs[r]) })
NearZeroCount ==
    Cardinality({ j \in 1..Len(replies) :
                    /\ replies[j].kind = "distance"
                    /\ replies[j].distance > -EPS
                    /\ replies[j].distance < EPS })
\* every row has been processed: the for loop ran to its end
LoopFinished == pc \in {"loop", "done"} /\ i > Len(vecs)
ComparisonDone == pc = "done" /\ i > Len(vecs)
ThresholdOutOfRange == pass_threshold[1] < 0 \/ pass_threshold[1] > pass_threshold[2]

\* C1: when the final total is 0 the call ends with AccuracyError (never a
\* divide-by-zero crash, never success), for every pass_threshold.
C1_ZeroTotalIsAccuracyError ==
    (ComparisonDone /\ total = 0) => IsAccuracyError(outcome)

\* C2: when the loop finishes, total is the number of rows without NaN and
\* passes the number of those whose distance d has |d| < 1e-6; a NaN row is
\* counted in neither, so a run whose non-NaN rows all pass succeeds for any
\* pass_threshold <= 1.
C2_CountsExcludeNaNRows ==
    LoopFinished =>
      /\ total = NonNaNCount
      /\ passes = NearZeroCount
      /\ Len(replies) = NonNaNCount
      /\ ( /\ pc = "done"
           /\ NonNaNCount > 0
           /\ NearZeroCount = NonNaNCount
           /\ pass_threshold[1] <= pass_threshold[2]
           => outcome = Returned(None) )

C2_Witness ==
    /\ ComparisonDone
    /\ Len(vecs) = 3
    /\ RowHasNaN(vecs[2])
    /\ total = 2
    /\ passes = 2
    /\ pass_threshold = <<1, 1>>
    /\ outcome = Returned(None)

\* C3: the threshold is inclusive: with total > 0 and passes/total >=
\* pass_threshold (equality included, and all distances 0.0 with threshold 1.0
\* included) the call returns None and raises nothing.
C3_ThresholdInclusive ==
    ComparisonDone =>
      /\ ( total > 0 /\ passes * pass_threshold[2] >= pass_threshold[1] * total
           => outcome = Returned(None) )
      /\ ( /\ Len(replies) > 0
           /\ \A j \in 1..Len(replies) : replies[j] = DistanceReply(0)
           /\ pass_threshold = <<1, 1>>
           => outcome = Returned(None) )

C3_Witness ==
    /\ ComparisonDone
    /\ total = 2
    /\ passes = 1
    /\ pass_threshold = <<1, 2>>
    /\ outcome = Returned(None)

\* C4: with total > 0 and passes/total < pass_threshold the call fails with
\* AccuracyError carrying the final passes and the final (NaN-adjusted) total.
C4_BelowThresholdReportsCounts ==
    ( /\ ComparisonDone
      /\ total > 0
      /\ passes * pass_threshold[2] < pass_threshold[1] * total )
    => /\ IsAccuracyError(outcome)
       /\ outcome.args = <<NearZeroCount, NonNaNCount>>

C4_Witness ==
    /\ ComparisonDone
    /\ Len(vecs) = 3
    /\ NonNaNCount = 2
    /\ IsAccuracyError(outcome)
    /\ outcome.args = <<1, 2>>
    /\ pass_threshold = <<2, 3>>

\* C5: a pass_threshold outside [0, 1] fails with InvalidArgument instead of
\* running the validation to success or AccuracyError (stated on the runs that
\* reach the comparison with total > 0).
C5_OutOfRangeThresholdRejected ==
    (ComparisonDone /\ total > 0 /\ ThresholdOutOfRange) => IsInvalidArgument(outcome)

\* C6: a failing query ends the call at once with that very error: it is the
\* last query issued, the comparison is not reached, and the outcome is
\* neither success nor AccuracyError.
C6_QueryFailurePropagates ==
    \A j \in 1..Len(replies) :
      replies[j].kind = "error" =>
        /\ j = Len(replies)
        /\ Len(queries) = j
        /\ pc = "done"
        /\ i <= Len(vecs)
        /\ queries[j].q = vecs[i]
        /\ outcome = Raised(replies[j].error, "", <<>>)
        /\ ~IsAccuracyError(outcome)
        /\ outcome.status # "returned"

C6_Witness ==
    /\ pc = "done"
    /\ Len(vecs) = 3
    /\ Len(replies) = 2
    /\ replies[1].kind = "distance"
    /\ replies[2].kind = "error"
    /\ NoNaNRow(vecs[3])
    /\ outcome.exc = "OSError"

\* C10: while no query has failed, the queries issued are exactly one per
\* processed row without NaN, in row order, none for a NaN row, at most one in
\* flight (the next is issued only after the previous answer), each with that
\* row's vector, k = 1, nprobes = 1 and the caller's refine_factor.
C10_OneQueryPerRowInOrder ==
    (\A j \in 1..Len(replies) : replies[j].kind = "distance") =>
      LET reached == IF pc = "querying" THEN i ELSE i - 1
          expected == SelectSeq(SubSeq(vecs, 1, reached), NoNaNRow)
      IN  /\ Len(queries) = Len(expected)
          /\ \A j \in 1..Len(queries) :
               queries[j] = [q |-> expected[j], k |-> 1, nprobes |-> 1,
                             refine_factor |-> refine_factor]
          /\ Len(replies) = Len(queries) - (IF pc = "querying" THEN 1 ELSE 0)
          /\ (ComparisonDone => Len(queries) = NonNaNCount)

C10_Witness ==
    /\ ComparisonDone
    /\ Len(vecs) = 3
    /\ RowHasNaN(vecs[2])
    /\ Len(queries) = 2
    /\ queries[1].q # queries[2].q
    /\ queries[2].refine_factor = 1
    /\ outcome.status = "returned"

\* s is the lower-case word w with some of its letters in upper case
IsCasingOf(s, w) ==
    /\ Len(s) = Len(w)
    /\ \A n \in 1..Len(w) : s[n] \in {w[n], CharUpper(w[n])}

\* C7: metric matching ignores case, "euclidean" in any casing gives "l2",
\* an accepted result is one of l2, dot, cosine, anything else fails with
\* InvalidArgument, and in KMeans construction no native object is created
\* for a rejected metric.
C7_MetricNormalized ==
    kpc \in {"create", "done"} =>
      LET expected ==
            IF IsCasingOf(metric_input, L2) \/ IsCasingOf(metric_input, EUCLIDEAN) THEN L2
            ELSE IF IsCasingOf(metric_input, DOT) THEN DOT
            ELSE IF IsCasingOf(metric_input, COSINE) THEN COSINE
            ELSE <<>>
      IN  IF expected = <<>>
            THEN /\ kpc = "done"
                 /\ IsInvalidArgument(koutcome)
                 /\ native = <<>>
            ELSE /\ self_metric = expected
                 /\ ~IsInvalidArgument(koutcome)
                 /\ \A n \in 1..Len(native) : native[n].metric_type = expected

C7_Witness ==
    /\ kpc = "done"
    /\ metric_input = << "E", "u", "c", "L", "I", "D", "E", "A", "n" >>
    /\ Len(native) = 1
    /\ native[1].metric_type = L2

ValidTable(t) == t.dtype = "float32" /\ Len(t.rowshape) = 1
\* the canonical fixed-width list array of an N x D float32 table
Canonical(t) ==
    [kind |-> "FixedSizeListArray", value_type |-> "float32",
     list_size |-> t.rowshape[1], length |-> t.n, values |-> t.cells]
ArrayForms == {"fsl", "tensor", "ndarrayC", "ndarrayF"}

\* C8: for a valid float32 N x D table, its fixed-width list form, its rank-1
\* tensor form and its 2-D ndarray form all normalise to the same fixed-width
\* list array of N rows, width D and the cells in row-major order; the
\* fixed-width list input comes back unchanged.
C8_RepresentationsAgree ==
    ValidTable(tbl) =>
      /\ \A f \in ArrayForms :
           res[f].called => res[f].result = Returned(Canonical(tbl))
      /\ \A f, g \in ArrayForms :
           res[f].called /\ res[g].called => res[f].result = res[g].result
      /\ res["fsl"].called => res["fsl"].result.value = res["fsl"].data

C8_Witness ==
    /\ ValidTable(tbl)
    /\ tbl.n = 2
    /\ tbl.rowshape = <<2>>
    /\ tbl.cells = << "0.0", "1.0", "0.0", "0.0" >>
    /\ \A f \in ArrayForms : res[f].called /\ res[f].result.status = "returned"

\* element type and rank (rows included) of an input array
ElemType(data) ==
    IF data.kind = "FixedSizeListArray" THEN data.value_type
    ELSE IF data.kind = "FixedShapeTensorArray" THEN data.storage.value_type
    ELSE data.dtype
Rank(data) ==
    IF data.kind = "FixedSizeListArray" THEN 2
    ELSE IF data.kind = "FixedShapeTensorArray" THEN 1 + Len(data.shape)
    ELSE Len(data.shape)

\* C9 as stated: a non-float32 input always fails with TypeMismatch and a
\* rank-3 tensor or ndarray always fails with ShapeError, whatever else holds
\* of the input.
C9_TypeAndShapeErrorsAlways ==
    \A f \in ArrayForms :
      res[f].called =>
        /\ (ElemType(res[f].data) # "float32" => IsTypeMismatch(res[f].result))
        /\ (Rank(res[f].data) = 3 => IsShapeError(res[f].result))

\* C9 amended: a rank-3 tensor or ndarray always fails with ShapeError,
\* whatever its element type; a non-float32 input of accepted rank always
\* fails with TypeMismatch.
C9_ShapeCheckedBeforeType ==
    \A f \in ArrayForms :
      res[f].called =>
        /\ (Rank(res[f].data) = 3 => IsShapeError(res[f].result))
        /\ (ElemType(res[f].data) # "float32" /\ Rank(res[f].data) = 2
              => IsTypeMismatch(res[f].result))

C9_Witness ==
    /\ res["ndarrayC"].called
    /\ res["tensor"].called
    /\ tbl.dtype = "float64"
    /\ Len(tbl.rowshape) = 2
    /\ IsShapeError(res["ndarrayC"].result)
    /\ IsShapeError(res["tensor"].result)

====
